---- MODULE Spec2Model ----
(***************************************************************************)
(* Outbound-call campaign dialer (src/app.py): the Dispatch Loop (tick)    *)
(* and the Webhook Reconciler (dizparos_webhook) over the Store tables     *)
(* campaigns, contacts, calls, call_events.                                *)
(*                                                                         *)
(* Every Store access and every gateway call of tick is one step, so that  *)
(* two tick invocations and webhook deliveries interleave between them.    *)
(* A webhook delivery is one step: its writes are keyed only by the row    *)
(* its lookup returned and by the payload.                                 *)
(*                                                                         *)
(* Null is 0 for numbers and row ids (row ids start at 1), "" for          *)
(* identifiers and << >> for texts: Python's `or` and `if not` treat       *)
(* None, 0 and "" alike.  Texts that the code lower-cases or searches are  *)
(* sequences of one-character strings.  created_at is written once on      *)
(* insert and never read, and is left out; finished_at is 0 (null) or 1    *)
(* (a timestamp).                                                          *)
(***************************************************************************)
EXTENDS Integers, Sequences, FiniteSets, TLC

VARIABLES
    config,       \* environment read at import: src/app.py:27-44
    campaigns,    \* table campaigns: id -> [status, concurrency]
    contacts,     \* table contacts: id -> [campaign_id, status, attempts, last_call_id]
    calls,        \* table calls: row id = position
    call_events,  \* table call_events, in insertion order
    tick,         \* per tick invocation slot: position in tick() and its locals
    gateway,      \* the voice gateway: calls it accepted, requests per phone
    returned,     \* what the last step returned to its caller, if it returned
    budget        \* invocations and deliveries made so far (bounds the runs)

vars == <<config, campaigns, contacts, calls, call_events, tick, gateway, returned,
          budget>>

----------------------------------------------------------------------------
(* Bounds of the model *)

NumContacts == 3
MaxTicks == 2
MaxDeliveries == 2

(* Program constants *)
DefaultConcurrency == 5

Procs == {1, 2}
CampaignIds == {1, 2}
ContactIds == 1 .. (NumContacts + 1)

\* identifiers the gateway assigns, in the order it assigns them
GatewayIds == <<"a", "b", "c", "d", "e", "f">>
\* an identifier the gateway never assigned through tick
ForeignId == "x"

InFlight == {"created", "answered", "transferred"}
Terminal == {"finished", "failed"}

Max(a, b) == IF a >= b THEN a ELSE b
Min(a, b) == IF a <= b THEN a ELSE b

----------------------------------------------------------------------------
(* Texts *)

T_unknown == <<"u","n","k","n","o","w","n">>
T_answered == <<"a","n","s","w","e","r","e","d">>
T_transferred == <<"t","r","a","n","s","f","e","r","r","e","d">>
T_finished == <<"f","i","n","i","s","h","e","d">>
T_completed == <<"c","o","m","p","l","e","t","e","d">>
T_ringing == <<"r","i","n","g","i","n","g">>
T_start_failed == <<"s","t","a","r","t","_","f","a","i","l","e","d">>
T_no_call_id == <<"u","n","k","n","o","w","n","_","n","o","_","c","a","l","l","_","i","d",":">>

UpperCase == <<"A","B","C","D","E","F","G","H","I","J","K","L","M",
               "N","O","P","Q","R","S","T","U","V","W","X","Y","Z">>
LowerCase == <<"a","b","c","d","e","f","g","h","i","j","k","l","m",
               "n","o","p","q","r","s","t","u","v","w","x","y","z">>

ToLower ==
    [ch \in {UpperCase[i] : i \in 1 .. Len(UpperCase)} |->
       LowerCase[CHOOSE i \in 1 .. Len(UpperCase) : UpperCase[i] = ch]]

LowerChar(ch) == IF ch \in DOMAIN ToLower THEN ToLower[ch] ELSE ch

\* str.lower()
Lower(s) == [i \in 1 .. Len(s) |-> LowerChar(s[i])]

\* `w in s` on strings
Contains(s, w) ==
    \E i \in 0 .. (Len(s) - Len(w)) : SubSeq(s, i + 1, i + Len(w)) = w

DigitChars == <<"0","1","2","3","4","5","6","7","8","9">>

RECURSIVE StrNat(_)
\* str(n) of a natural number
StrNat(n) ==
    IF n < 10 THEN <<DigitChars[n + 1]>>
    ELSE StrNat(n \div 10) \o <<DigitChars[(n % 10) + 1]>>

----------------------------------------------------------------------------
(* Store queries *)

CallRows == 1 .. Len(calls)

\* calls of a campaign in progress: .eq("campaign_id", c).in_("status", [...]) count
InProgressCount(tbl, c) ==
    Cardinality({i \in 1 .. Len(tbl) :
                    tbl[i].campaign_id = c /\ tbl[i].status \in InFlight})

\* a faulty variant: the status filter is missing
PendingContactsAnyStatus(tbl, c) ==
    {k \in ContactIds : tbl[k].campaign_id = c}

\* contacts .eq("campaign_id", c).eq("status", "pending")
PendingContacts(tbl, c) ==
    {k \in ContactIds : tbl[k].campaign_id = c /\ tbl[k].status = "pending"}

\* campaigns .eq("status", "running"), and .eq("id", body.campaign_id) when given
RunningCampaigns(body_campaign_id) ==
    {c \in CampaignIds :
        /\ campaigns[c].status = "running"
        /\ (body_campaign_id # 0 => c = body_campaign_id)}

\* int(camp.get("concurrency") or 5)
Concurrency(camp) ==
    IF camp.concurrency = 0 THEN DefaultConcurrency ELSE camp.concurrency

\* a faulty variant: the calls in progress are not subtracted
FreeSlotsIgnoringCurrent(concurrency, current) == Max(concurrency, 0)

\* max(concurrency - current, 0)
FreeSlots(concurrency, current) == Max(concurrency - current, 0)

NewCall(campaign_id, contact_id, dizparos_call_id) ==
    [campaign_id |-> campaign_id, contact_id |-> contact_id, status |-> "created",
     dizparos_call_id |-> dizparos_call_id, duration |-> 0, cost |-> 0,
     recording_url |-> "", finished_at |-> 0]

----------------------------------------------------------------------------
(* tick: position and locals of one invocation *)

\* the Store a tick began in, kept while nothing else runs beside it
NoPre == [alone |-> FALSE, calls |-> << >>, contacts |-> << >>]

IdleTick ==
    [pc |-> "idle", camps |-> {}, campaign_id |-> 0, free_slots |-> 0, todo |-> {},
     contact_id |-> 0, attempts |-> 0, call_id |-> 0, diz_call_id |-> "",
     started |-> 0, errors |-> 0, results |-> << >>, pre |-> NoPre]

Running(p) == tick[p].pc # "idle"

Nothing ==
    [by |-> "", http |-> 0, ok |-> FALSE, message |-> FALSE, results |-> << >>,
     pre |-> NoPre, warning |-> "", call_id |-> 0, dizparos_call_id |-> ""]

\* line 161: return {"ok": True, "message": ...}
NoCampaign ==
    [Nothing EXCEPT !.by = "tick", !.http = 200, !.ok = TRUE, !.message = TRUE]

\* line 253: return {"ok": True, "results": results}
TickResponse(t) ==
    [Nothing EXCEPT !.by = "tick", !.http = 200, !.ok = TRUE, !.results = t.results,
                    !.pre = t.pre]

\* the response of the step that took the tick from t to t2, if it returned
Returned(t, t2) ==
    IF t.pc # "idle" /\ t2.pc = "idle" THEN TickResponse(t2) ELSE Nothing

\* the locals are dropped once the response is out
Forget(t) == IF t.pc = "idle" THEN IdleTick ELSE t

\* results.append(row), then the next campaign of the loop or the return
EndCampaign(t, row) ==
    IF t.camps = {}
    THEN [t EXCEPT !.pc = "idle", !.results = Append(t.results, row)]
    ELSE [t EXCEPT !.pc = "count", !.results = Append(t.results, row),
                   !.campaign_id = 0, !.free_slots = 0, !.todo = {},
                   !.contact_id = 0, !.attempts = 0, !.call_id = 0,
                   !.diz_call_id = "", !.started = 0, !.errors = 0]

\* the next contact of `for c in contacts`, or the campaign's result row
EndContact(t) ==
    IF t.todo # {}
    THEN [t EXCEPT !.pc = "insert_call", !.contact_id = 0, !.attempts = 0,
                   !.call_id = 0, !.diz_call_id = ""]
    ELSE EndCampaign(t, [campaign_id |-> t.campaign_id, started |-> t.started,
                         errors |-> t.errors, free_slots |-> t.free_slots,
                         reason |-> ""])

\* a tick that is no longer the only activity loses its record of the state it began in
Disturb(t) == [t EXCEPT !.pre = NoPre]

\* one step of tick invocation p, to the locals t2
Step(p, t2) ==
    /\ tick' = [tick EXCEPT ![p] = Forget(t2)]
    /\ returned' = Returned(tick[p], t2)

\* lines 153-163: the running campaigns, or the early return
BeginTick(p, body_campaign_id) ==
    /\ tick[p].pc = "idle"
    /\ \A q \in Procs : q < p => Running(q)   \* a request takes the first free slot
    /\ LET found == RunningCampaigns(body_campaign_id)
           alone == \A q \in Procs \ {p} : ~Running(q)
           pre == IF alone
                  THEN [alone |-> TRUE, calls |-> calls, contacts |-> contacts]
                  ELSE NoPre
       IN /\ tick' = [q \in Procs |->
                       IF q # p THEN Disturb(tick[q])
                       ELSE IF found = {} THEN IdleTick
                       ELSE [IdleTick EXCEPT !.pc = "count", !.camps = found,
                                             !.pre = pre]]
          /\ returned' = IF found = {} THEN NoCampaign ELSE Nothing
    /\ UNCHANGED <<config, campaigns, contacts, calls, call_events, gateway>>

\* one of the MaxTicks requests to POST /tick
TickBegin(p, body_campaign_id) ==
    /\ budget.ticks < MaxTicks
    /\ budget' = [budget EXCEPT !.ticks = @ + 1]
    /\ BeginTick(p, body_campaign_id)

\* lines 165-180: next campaign, count of calls in progress, free slots
TickCount(p) ==
    /\ tick[p].pc = "count"
    /\ \E c \in tick[p].camps :
         LET t == [tick[p] EXCEPT !.camps = @ \ {c}, !.campaign_id = c]
             concurrency == Concurrency(campaigns[c])
             current == InProgressCount(calls, c)
             free_slots == FreeSlots(concurrency, current)
         IN Step(p, IF free_slots <= 0
                    THEN EndCampaign(t, [campaign_id |-> c, started |-> 0,
                                         errors |-> 0, free_slots |-> 0,
                                         reason |-> "sem slots"])
                    ELSE [t EXCEPT !.pc = "select", !.free_slots = free_slots])
    /\ UNCHANGED <<config, campaigns, contacts, calls, call_events, gateway, budget>>

\* the rows a query with .limit(n) and no ordering may return
Limit(rows, n) ==
    {S \in SUBSET rows : Cardinality(S) = Min(n, Cardinality(rows))}

\* lines 183-191: pending contacts, at most free_slots of them
TickSelect(p) ==
    /\ tick[p].pc = "select"
    /\ \E S \in Limit(PendingContacts(contacts, tick[p].campaign_id), tick[p].free_slots) :
         LET t == [tick[p] EXCEPT
                     !.todo = {[id |-> k, attempts |-> contacts[k].attempts] : k \in S},
                     !.started = 0, !.errors = 0]
         IN Step(p, EndContact(t))
    /\ UNCHANGED <<config, campaigns, contacts, calls, call_events, gateway, budget>>

\* lines 193-204: next selected contact, insert its call row
TickInsertCall(p) ==
    /\ tick[p].pc = "insert_call"
    /\ \E c \in tick[p].todo :
         /\ calls' = Append(calls, NewCall(tick[p].campaign_id, c.id, ""))
         /\ Step(p, [tick[p] EXCEPT !.pc = "mark_calling", !.todo = @ \ {c},
                                     !.contact_id = c.id, !.attempts = c.attempts,
                                     !.call_id = Len(calls) + 1])
    /\ UNCHANGED <<config, campaigns, contacts, call_events, gateway, budget>>

\* lines 207-211: contact status calling, attempts + 1, last_call_id
TickMarkCalling(p) ==
    /\ tick[p].pc = "mark_calling"
    /\ contacts' = [contacts EXCEPT ![tick[p].contact_id] =
                      [@ EXCEPT !.status = "calling",
                                !.attempts = tick[p].attempts + 1,
                                !.last_call_id = tick[p].call_id]]
    /\ Step(p, [tick[p] EXCEPT !.pc = "gateway"])
    /\ UNCHANGED <<config, campaigns, calls, call_events, gateway, budget>>

----------------------------------------------------------------------------
(* The voice gateway *)

\* DIZPAROS_TOKEN, TRANSFER_DESTINATION and DIZPAROS_ENDPOINT are all set
Configured == config.dispatch

NoResp == [call_id |-> "", id |-> "", data_call_id |-> ""]

\* the JSON documents the gateway may answer with for the call it accepted as `id`:
\* the identifier under call_id, under id, under data.call_id, or nowhere
Responses(id) ==
    {[NoResp EXCEPT !.call_id = id], [NoResp EXCEPT !.id = id],
     [NoResp EXCEPT !.data_call_id = id], NoResp}

\* resp.get("call_id") or resp.get("id") or resp.get("data", {}).get("call_id")
ExtractCallId(resp) ==
    IF resp.call_id # "" THEN resp.call_id
    ELSE IF resp.id # "" THEN resp.id
    ELSE resp.data_call_id

\* a faulty variant: the failure ends the loop over the campaign's contacts
RaiseAndBreak(t) ==
    [t EXCEPT !.pc = "fail_call", !.errors = @ + 1, !.diz_call_id = "", !.todo = {}]

\* except Exception: errors += 1
Raise(t) == [t EXCEPT !.pc = "fail_call", !.errors = @ + 1, !.diz_call_id = ""]

\* lines 112-117: a missing setting raises before any request is sent
TickGatewayUnconfigured(p) ==
    /\ tick[p].pc = "gateway"
    /\ ~Configured
    /\ Step(p, Raise(tick[p]))
    /\ UNCHANGED <<config, campaigns, contacts, calls, call_events, gateway, budget>>

\* lines 144-146: the request is sent; it times out or the gateway answers non-2xx
TickGatewayError(p) ==
    /\ tick[p].pc = "gateway"
    /\ Configured
    /\ gateway' = [gateway EXCEPT !.dialed[tick[p].contact_id] = @ + 1]
    /\ Step(p, Raise(tick[p]))
    /\ UNCHANGED <<config, campaigns, contacts, calls, call_events, budget>>

\* lines 144-147, 214-224: the gateway accepts the call and answers with a document
TickGatewayAnswer(p) ==
    /\ tick[p].pc = "gateway"
    /\ Configured
    /\ gateway.accepted < Len(GatewayIds)
    /\ gateway' = [gateway EXCEPT !.dialed[tick[p].contact_id] = @ + 1,
                                  !.accepted = @ + 1]
    /\ \E resp \in Responses(GatewayIds[gateway.accepted + 1]) :
         LET diz_call_id == ExtractCallId(resp)
         IN Step(p, IF diz_call_id = ""
                    THEN Raise(tick[p])
                    ELSE [tick[p] EXCEPT !.pc = "store_id",
                                         !.diz_call_id = diz_call_id])
    /\ UNCHANGED <<config, campaigns, contacts, calls, call_events, budget>>

\* lines 226-230: the identifier on the call row, started += 1
TickStoreId(p) ==
    /\ tick[p].pc = "store_id"
    /\ calls' = [calls EXCEPT ![tick[p].call_id] =
                   [@ EXCEPT !.dizparos_call_id = tick[p].diz_call_id]]
    /\ Step(p, EndContact([tick[p] EXCEPT !.started = @ + 1]))
    /\ UNCHANGED <<config, campaigns, contacts, call_events, gateway, budget>>

\* lines 235-238: the call row failed
TickFailCall(p) ==
    /\ tick[p].pc = "fail_call"
    /\ calls' = [calls EXCEPT ![tick[p].call_id] =
                   [@ EXCEPT !.status = "failed", !.finished_at = 1]]
    /\ Step(p, [tick[p] EXCEPT !.pc = "fail_contact"])
    /\ UNCHANGED <<config, campaigns, contacts, call_events, gateway, budget>>

\* lines 240-242: the contact failed
TickFailContact(p) ==
    /\ tick[p].pc = "fail_contact"
    /\ contacts' = [contacts EXCEPT ![tick[p].contact_id] =
                      [@ EXCEPT !.status = "failed"]]
    /\ Step(p, [tick[p] EXCEPT !.pc = "fail_event"])
    /\ UNCHANGED <<config, campaigns, calls, call_events, gateway, budget>>

\* the payload of a start_failed event names the dialed phone
StartFailedEvent(call_id, phone) ==
    [call_id |-> call_id, event_type |-> T_start_failed,
     payload |-> [error |-> TRUE, phone |-> phone]]

\* lines 245-249: the start_failed event, then the next contact
TickFailEvent(p) ==
    /\ tick[p].pc = "fail_event"
    /\ call_events' = Append(call_events,
                             StartFailedEvent(tick[p].call_id, tick[p].contact_id))
    /\ Step(p, EndContact(tick[p]))
    /\ UNCHANGED <<config, campaigns, contacts, calls, gateway, budget>>

TickStep(p) ==
    \/ TickCount(p)
    \/ TickSelect(p)
    \/ TickInsertCall(p)
    \/ TickMarkCalling(p)
    \/ TickGatewayUnconfigured(p)
    \/ TickGatewayError(p)
    \/ TickGatewayAnswer(p)
    \/ TickStoreId(p)
    \/ TickFailCall(p)
    \/ TickFailContact(p)
    \/ TickFailEvent(p)

----------------------------------------------------------------------------
(* dizparos_webhook *)

NoPayload ==
    [type |-> 0, type_description |-> << >>, event |-> << >>,
     data_call_id |-> "", call_id |-> "", id |-> "",
     duration |-> 0, cost |-> 0, recording_url |-> ""]

\* line 271: str(type_description or event or type or "unknown").lower()
Desc(payload) ==
    Lower(IF payload.type_description # << >> THEN payload.type_description
          ELSE IF payload.event # << >> THEN payload.event
          ELSE IF payload.type # 0 THEN StrNat(payload.type)
          ELSE T_unknown)

\* line 274: data.get("call_id") or payload.get("call_id") or payload.get("id")
PayloadCallId(payload) ==
    IF payload.data_call_id # "" THEN payload.data_call_id
    ELSE IF payload.call_id # "" THEN payload.call_id
    ELSE payload.id

\* a faulty variant: the filter on dizparos_call_id is missing
LookupAnyRow(tbl, diz_call_id) ==
    IF Len(tbl) = 0 THEN {0} ELSE 1 .. Len(tbl)

\* lines 285-288: the rows .eq("dizparos_call_id", id).limit(1) may return; 0 is no row
Lookup(tbl, diz_call_id) ==
    LET rows == {i \in 1 .. Len(tbl) : tbl[i].dizparos_call_id = diz_call_id}
    IN IF rows = {} THEN {0} ELSE rows

IsAnswered(t, desc) == t = 2000 \/ Contains(desc, T_answered)
IsTransferred(t, desc) == t = 2001 \/ Contains(desc, T_transferred)
IsFinished(t, desc) ==
    t = 2002 \/ Contains(desc, T_finished) \/ Contains(desc, T_completed)

\* lines 313-331: the status the event gives the call, "" for none
EventStatus(t, desc) ==
    IF IsAnswered(t, desc) THEN "answered"
    ELSE IF IsTransferred(t, desc) THEN "transferred"
    ELSE IF IsFinished(t, desc) THEN "finished"
    ELSE ""

\* lines 313-327: the update of the call row
UpdateCall(row, status, payload) ==
    IF status = "finished"
    THEN [row EXCEPT !.status = "finished", !.duration = payload.duration,
                     !.cost = payload.cost,
                     !.recording_url = payload.recording_url,
                     !.finished_at = 1]
    ELSE IF status = "" THEN row
    ELSE [row EXCEPT !.status = status]

\* lines 329-331: the contact of a finished call, if it has one
UpdateContacts(tbl, status, contact_id) ==
    IF status = "finished" /\ contact_id # 0
    THEN [tbl EXCEPT ![contact_id] = [@ EXCEPT !.status = "done"]]
    ELSE tbl

\* the handler's responses: lines 282, 309, 333
WebhookOk == [Nothing EXCEPT !.by = "webhook", !.http = 200, !.ok = TRUE]

\* a faulty variant: an event that belongs to no call is not archived
InsertEventIfLinked(events, call_id, event_type, payload) ==
    IF call_id = 0
    THEN events
    ELSE Append(events,
                [call_id |-> call_id, event_type |-> event_type, payload |-> payload])

\* lines 277-281 and 294-298: sb.table("call_events").insert(...)
InsertEvent(events, call_id, event_type, payload) ==
    Append(events,
           [call_id |-> call_id, event_type |-> event_type, payload |-> payload])

\* lines 270-333: the Store after the handler ran on `payload`, its lookup
\* having returned `call_id`, and the handler's response
Webhook(st, payload, call_id) ==
    LET t == payload.type
        desc == Desc(payload)
        diz_call_id == PayloadCallId(payload)
        contact_id == IF call_id # 0 THEN st.calls[call_id].contact_id ELSE 0
        status == EventStatus(t, desc)
    IN IF diz_call_id = ""
       THEN [calls |-> st.calls,
             contacts |-> st.contacts,
             call_events |->
               InsertEvent(st.call_events, 0, T_no_call_id \o desc, payload),
             response |-> [WebhookOk EXCEPT !.warning = "no call_id"]]
       ELSE LET logged == InsertEvent(st.call_events, call_id, desc, payload)
            IN IF call_id = 0
               THEN [calls |-> Append(st.calls, NewCall(0, 0, diz_call_id)),
                     contacts |-> st.contacts,
                     call_events |-> logged,
                     response |-> [WebhookOk EXCEPT !.warning = "placeholder"]]
               ELSE [calls |-> [st.calls EXCEPT ![call_id] =
                                   UpdateCall(@, status, payload)],
                     contacts |-> UpdateContacts(st.contacts, status, contact_id),
                     call_events |-> logged,
                     response |-> [WebhookOk EXCEPT !.call_id = call_id,
                                                    !.dizparos_call_id = diz_call_id]]

Store == [calls |-> calls, contacts |-> contacts, call_events |-> call_events]

\* every outcome the handler may have from `st` for `payload`
WebhookOutcomes(st, payload) ==
    {Webhook(st, payload, r) : r \in Lookup(st.calls, PayloadCallId(payload))}

WhiteSpace == {" ", "\t"}

RECURSIVE LStrip(_)
LStrip(s) ==
    IF s # << >> /\ s[1] \in WhiteSpace THEN LStrip(Tail(s)) ELSE s

RECURSIVE RStrip(_)
RStrip(s) ==
    IF s # << >> /\ s[Len(s)] \in WhiteSpace
    THEN RStrip(SubSeq(s, 1, Len(s) - 1))
    ELSE s

\* str.strip()
Strip(s) == RStrip(LStrip(s))

\* a faulty variant: a request without the header is let through
VerifyWebhookIfPresent(secret, header) ==
    secret = << >> \/ Strip(header) = << >> \/ Strip(header) = secret

\* lines 65-74: verify_webhook passes; a missing header is << >>
VerifyWebhook(secret, header) ==
    secret = << >> \/ Strip(header) = secret

\* line 74: HTTPException(status_code=401)
Unauthorized == [Nothing EXCEPT !.by = "webhook", !.http = 401]

\* lines 257-333: every outcome of a request with x-webhook-secret `header`
RequestOutcomes(st, header, payload) ==
    IF VerifyWebhook(config.secret, header)
    THEN WebhookOutcomes(st, payload)
    ELSE {[calls |-> st.calls, contacts |-> st.contacts,
           call_events |-> st.call_events, response |-> Unauthorized]}

\* one request to POST /webhooks/dizparos
HandleWebhook(header, payload) ==
    /\ \E out \in RequestOutcomes(Store, header, payload) :
         /\ calls' = out.calls
         /\ contacts' = out.contacts
         /\ call_events' = out.call_events
         /\ returned' = out.response
    /\ tick' = [q \in Procs |-> Disturb(tick[q])]
    /\ UNCHANGED <<config, campaigns, gateway>>

\* one delivery of `payload`, with x-webhook-secret `header`
Request(header, payload) ==
    /\ budget.deliveries < MaxDeliveries
    /\ budget' = [budget EXCEPT !.deliveries = @ + 1]
    /\ HandleWebhook(header, payload)

\* one delivery of `payload` without the header
Deliver(payload) == Request(<< >>, payload)

\* the Store writes the handler makes for `payload` once its lookup returned
\* `call_id`: the event (lines 277-281, 294-298), then the placeholder (302-309)
\* or the call's status (313-327), then the contact's (329-331)
Writes(st, payload, call_id) ==
    LET status == EventStatus(payload.type, Desc(payload))
    IN IF PayloadCallId(payload) = "" THEN 1
       ELSE IF call_id = 0 THEN 2
       ELSE IF status = "" THEN 1
       ELSE IF status = "finished" /\ st.calls[call_id].contact_id # 0 THEN 3
       ELSE 2

\* the handler has no try/except: what .execute() raises leaves it as a 500
ServerError == [Nothing EXCEPT !.by = "webhook", !.http = 500]

\* lines 270-333 when the handler's write number `at` raises: the writes before
\* it stay in the Store, each being a request of its own
WebhookFailing(st, payload, call_id, at) ==
    LET desc == Desc(payload)
        diz_call_id == PayloadCallId(payload)
        status == EventStatus(payload.type, desc)
        logged == InsertEvent(st.call_events, call_id,
                              IF diz_call_id = "" THEN T_no_call_id \o desc ELSE desc,
                              payload)
    IN [calls |-> IF at = 3
                  THEN [st.calls EXCEPT ![call_id] = UpdateCall(@, status, payload)]
                  ELSE st.calls,
        contacts |-> st.contacts,
        call_events |-> IF at = 1 THEN st.call_events ELSE logged,
        response |-> ServerError]

\* one delivery of `payload` during which the Store fails the handler's write
\* number `at`
RequestStoreFailure(header, payload, at) ==
    /\ budget.deliveries < MaxDeliveries
    /\ budget' = [budget EXCEPT !.deliveries = @ + 1]
    /\ VerifyWebhook(config.secret, header)
    /\ \E r \in Lookup(calls, PayloadCallId(payload)) :
         /\ at <= Writes(Store, payload, r)
         /\ LET out == WebhookFailing(Store, payload, r, at)
            IN /\ calls' = out.calls
               /\ contacts' = out.contacts
               /\ call_events' = out.call_events
               /\ returned' = out.response
    /\ tick' = [q \in Procs |-> Disturb(tick[q])]
    /\ UNCHANGED <<config, campaigns, gateway>>

----------------------------------------------------------------------------
(* The gateway's events *)

AnsweredEvent(id) ==
    [NoPayload EXCEPT !.type = 2000, !.type_description = T_answered,
                      !.data_call_id = id]
TransferredEvent(id) ==
    [NoPayload EXCEPT !.type = 2001, !.type_description = T_transferred,
                      !.data_call_id = id]
FinishedEvent(id) ==
    [NoPayload EXCEPT !.type = 2002, !.type_description = T_finished,
                      !.data_call_id = id, !.duration = 42, !.cost = 50,
                      !.recording_url = "rec"]
RingingEvent(id) ==
    [NoPayload EXCEPT !.type = 1999, !.type_description = T_ringing,
                      !.data_call_id = id]

EventsFor(id) ==
    {AnsweredEvent(id), TransferredEvent(id), FinishedEvent(id), RingingEvent(id)}

\* identifiers a delivery can carry: those of calls the gateway accepted, and a foreign one
AcceptedIds == {GatewayIds[i] : i \in 1 .. gateway.accepted}

Events ==
    UNION {EventsFor(id) : id \in AcceptedIds \cup {ForeignId}} \cup {RingingEvent("")}

----------------------------------------------------------------------------
(* Initial states and specifications *)

\* campaign 1 runs with concurrency k and owns contacts 1 .. n, all pending;
\* campaign 2 is paused and owns the others
Scenario(k, n) ==
    /\ campaigns = [c \in CampaignIds |->
                      IF c = 1
                      THEN [status |-> "running", concurrency |-> k]
                      ELSE [status |-> "paused", concurrency |-> 1]]
    /\ contacts = [c \in ContactIds |->
                     [campaign_id |-> IF c <= n THEN 1 ELSE 2,
                      status |-> "pending", attempts |-> 0, last_call_id |-> 0]]

InitEmpty ==
    /\ calls = << >>
    /\ call_events = << >>
    /\ tick = [p \in Procs |-> IdleTick]
    /\ gateway = [accepted |-> 0, dialed |-> [c \in ContactIds |-> 0]]
    /\ returned = Nothing
    /\ budget = [ticks |-> 0, deliveries |-> 0]

\* DIZPAROS_WEBHOOK_SECRET is not set
InitRest ==
    /\ config \in {[dispatch |-> d, secret |-> << >>] : d \in BOOLEAN}
    /\ InitEmpty

Bodies == {0} \cup CampaignIds

\* Two overlapping tick invocations on a campaign with one slot and two contacts.
OverlapConcurrency == 1
OverlapContacts == 2

Init == Scenario(OverlapConcurrency, OverlapContacts) /\ InitRest

Next ==
    \/ \E p \in Procs, b \in Bodies : TickBegin(p, b)
    \/ \E p \in Procs : TickStep(p)
    \/ \E payload \in Events : Deliver(payload)

Spec == Init /\ [][Next]_vars

\* tick invocations one after another, on a campaign with two slots and NumContacts
\* contacts
SeqConcurrency == 2

InitSeq == Scenario(SeqConcurrency, NumContacts) /\ InitRest

NextSeq ==
    \/ \E b \in Bodies : TickBegin(1, b)
    \/ TickStep(1)
    \/ \E payload \in Events : Deliver(payload)

SpecSeq == InitSeq /\ [][NextSeq]_vars

\* a value of DIZPAROS_WEBHOOK_SECRET, and values of the x-webhook-secret header:
\* missing, right, right within white space, and wrong in a character, in case,
\* in length
Secret == <<"s", "3">>
Headers ==
    {<< >>, Secret, <<" ">> \o Secret \o <<"\t">>, <<"s", "4">>, <<"S", "3">>,
     <<"s">>, <<"s", "3", "3">>, <<" ">>}

\* requests to the webhook endpoint with and without a configured secret, on the
\* small campaign, with tick invocations one after another
InitWebhook ==
    /\ Scenario(OverlapConcurrency, OverlapContacts)
    /\ config \in {[dispatch |-> d, secret |-> s] :
                     d \in BOOLEAN, s \in {<< >>, Secret}}
    /\ InitEmpty

NextWebhook ==
    \/ \E b \in Bodies : TickBegin(1, b)
    \/ TickStep(1)
    \/ \E header \in Headers, payload \in Events : Request(header, payload)

SpecWebhook == InitWebhook /\ [][NextWebhook]_vars

\* deliveries some of which meet a Store that fails one of the handler's writes,
\* on the small campaign, with tick invocations one after another
NextOutage ==
    \/ \E b \in Bodies : TickBegin(1, b)
    \/ TickStep(1)
    \/ \E payload \in Events : Deliver(payload)
    \/ \E payload \in Events, at \in 1 .. 3 : RequestStoreFailure(<< >>, payload, at)

SpecOutage == Init /\ [][NextOutage]_vars

\* two running campaigns: campaign 1 with MultiConcurrency slots and the contacts
\* 1 .. MultiContacts, campaign 2 with one slot and the other contacts; one tick
\* at a time, over all running campaigns, and calls that finish in between
MultiConcurrency == 2
MultiContacts == 2

InitMulti ==
    /\ campaigns = [c \in CampaignIds |->
                      [status |-> "running",
                       concurrency |-> IF c = 1 THEN MultiConcurrency ELSE 1]]
    /\ contacts = [c \in ContactIds |->
                     [campaign_id |-> IF c <= MultiContacts THEN 1 ELSE 2,
                      status |-> "pending", attempts |-> 0, last_call_id |-> 0]]
    /\ InitRest

NextMulti ==
    \/ TickBegin(1, 0)
    \/ TickStep(1)
    \/ \E id \in AcceptedIds : Deliver(FinishedEvent(id))

SpecMulti == InitMulti /\ [][NextMulti]_vars

\* the scheduler's request to POST /tick, repeated for ever
TickAgain == BeginTick(1, 0) /\ UNCHANGED budget

Notified(id) ==
    \E i \in 1 .. Len(call_events) : call_events[i].payload = FinishedEvent(id)

\* the gateway reports the end of the call it accepted as `id`, once, at any moment
\* after it accepted the call
GatewayFinished(id) ==
    /\ id \in AcceptedIds
    /\ ~Notified(id)
    /\ HandleWebhook(<< >>, FinishedEvent(id))
    /\ UNCHANGED budget

NextLive ==
    \/ TickAgain
    \/ TickStep(1)
    \/ \E i \in DOMAIN GatewayIds : GatewayFinished(GatewayIds[i])

\* tick requests one after another for ever, each running to its end, and every
\* accepted call reported finished, on the small campaign
SpecLive ==
    /\ Init
    /\ [][NextLive]_vars
    /\ WF_vars(TickAgain)
    /\ WF_vars(TickStep(1))
    /\ \A i \in DOMAIN GatewayIds : WF_vars(GatewayFinished(GatewayIds[i]))

----------------------------------------------------------------------------
(* Properties *)

CallsOf(c) == {i \in CallRows : calls[i].contact_id = c}

InFlightCallsOf(c) == {i \in CallsOf(c) : calls[i].status \in InFlight}

WithinConcurrency ==
    \A c \in CampaignIds : InProgressCount(calls, c) <= Concurrency(campaigns[c])

\* C1: at every reachable state, overlapping tick invocations included, a campaign
\* has at most `concurrency` calls in status created, answered or transferred.
C1_SlotCapAlways == WithinConcurrency

\* C2: when tick invocations do not overlap, every campaign has at most
\* `concurrency` calls in progress at the moment a tick invocation returns,
\* whatever webhook deliveries came in between.
C2_SlotCapAfterTick == returned.by = "tick" => WithinConcurrency

\* C3: no contact has a call row created and a gateway call issued for it by
\* both of two overlapping tick invocations.
C3_NoDoubleSelection ==
    \A c \in ContactIds : ~(Cardinality(CallsOf(c)) >= 2 /\ gateway.dialed[c] >= 2)

\* C4: with tick invocations one after another, a contact that left `pending` is
\* never selected again: the contacts a tick still has to handle are pending, and
\* every contact has at most one call row and at most one gateway call.
C4_NeverReselected ==
    /\ \A r \in tick[1].todo : contacts[r.id].status = "pending"
    /\ \A c \in ContactIds :
         Cardinality(CallsOf(c)) <= 1 /\ gateway.dialed[c] <= 1

\* a second tick has selected a contact while one contact is done and one failed
C4_Witness ==
    /\ budget.ticks = 2
    /\ tick[1].todo # {}
    /\ \E c, d \in ContactIds :
         /\ contacts[c].status = "done" /\ gateway.dialed[c] = 1
         /\ contacts[d].status = "failed" /\ gateway.dialed[d] = 1

\* C5: at every reachable state each contact is referenced by at most one call
\* in status created, answered or transferred.
C5_OneInFlightCallPerContact ==
    \A c \in ContactIds : Cardinality(InFlightCallsOf(c)) <= 1

\* the rows a tick that began in `pre` has inserted since
NewRows(pre) == (Len(pre.calls) + 1) .. Len(calls)

\* C7: a tick that ran alone on a campaign with concurrency k, n calls in progress
\* and p pending contacts, all of its gateway calls answered with an identifier,
\* reports started = min(max(k - n, 0), p), has inserted exactly that many calls,
\* each still `created` with its identifier and for a contact that went from
\* pending to calling, and has left every other contact as it was.
C7_StartsMinOfFreeAndPending ==
    (returned.by = "tick" /\ returned.pre.alone) =>
      \A x \in 1 .. Len(returned.results) :
        LET r == returned.results[x]
            pre == returned.pre
            k == Concurrency(campaigns[r.campaign_id])
            n == InProgressCount(pre.calls, r.campaign_id)
            was == PendingContacts(pre.contacts, r.campaign_id)
            m == Min(Max(k - n, 0), Cardinality(was))
            new == {i \in NewRows(pre) : calls[i].campaign_id = r.campaign_id}
            dialed == {calls[i].contact_id : i \in new}
        IN r.errors = 0 =>
             /\ r.started = m
             /\ Cardinality(new) = m
             /\ Cardinality(dialed) = m
             /\ dialed \subseteq was
             /\ \A i \in new : /\ calls[i].status = "created"
                               /\ calls[i].dizparos_call_id # ""
                               /\ contacts[calls[i].contact_id].status = "calling"
             /\ \A c \in ContactIds \ dialed : contacts[c] = pre.contacts[c]

\* k = 2, n = 0, p = 3: two started, one left pending
C7_Witness ==
    /\ returned.by = "tick" /\ returned.pre.alone
    /\ returned.pre.calls = << >>
    /\ Len(returned.results) = 1
    /\ returned.results[1].started = 2 /\ returned.results[1].errors = 0
    /\ Cardinality(PendingContacts(returned.pre.contacts, 1)) = 3
    /\ Cardinality(PendingContacts(contacts, 1)) = 1

\* the start_failed events linked to a call
StartFailedEvents(evs, call_id) ==
    {i \in 1 .. Len(evs) :
        evs[i].call_id = call_id /\ evs[i].event_type = T_start_failed}

\* the campaign's counters once the tick has gone on from a contact
CountersAfter(t2, ret) ==
    IF t2.pc = "insert_call" THEN [started |-> t2.started, errors |-> t2.errors]
    ELSE LET rows == IF t2.pc = "idle" THEN ret.results ELSE t2.results
         IN [started |-> rows[Len(rows)].started, errors |-> rows[Len(rows)].errors]

\* what tick invocation p leaves when its dispatch of a contact fails
DispatchFailureHandled(p) ==
    LET t == tick[p]
        t2 == tick'[p]
    IN /\ (t.pc = "gateway" /\ t2.pc = "fail_call") =>
            t2.errors = t.errors + 1 /\ t2.started = t.started
       /\ (t.pc = "fail_event" /\ t2.pc # "fail_event") =>
            /\ calls'[t.call_id].status = "failed"
            /\ contacts'[t.contact_id].status = "failed"
            /\ Cardinality(StartFailedEvents(call_events', t.call_id)) = 1
            /\ CountersAfter(t2, returned') =
                 [started |-> t.started, errors |-> t.errors]

\* C8: when the dispatch of a selected contact fails, errors (not started) is
\* incremented, and once the tick has handled the contact its call is `failed`,
\* the contact is `failed` and exactly one start_failed event is linked to the call.
C8_DispatchFailure == [][\A p \in Procs : DispatchFailureHandled(p)]_vars

----------------------------------------------------------------------------
(* The handler on every event the gateway's format allows, at every reachable Store *)

T_Completed == <<"C","o","m","p","l","e","t","e","d">>
T_FINISHED == <<"F","I","N","I","S","H","E","D">>

\* finished events in the shapes the handler tolerates: code and description, code
\* alone with the identifier at top level, description alone in other letter cases
FinishedProbes(id) ==
    {FinishedEvent(id),
     [NoPayload EXCEPT !.type = 2002, !.call_id = id, !.duration = 7],
     [NoPayload EXCEPT !.event = T_Completed, !.id = id, !.cost = 3],
     [NoPayload EXCEPT !.type_description = T_FINISHED, !.data_call_id = id,
                       !.recording_url = "rec2"]}

Probes(id) == EventsFor(id) \cup FinishedProbes(id)

ProbeIds == AcceptedIds \cup {ForeignId}

Matching(id) == {i \in CallRows : calls[i].dizparos_call_id = id}

\* what is compared between Stores: every call without its finished_at, every contact
Core(st) ==
    [calls |-> [i \in 1 .. Len(st.calls) |-> [st.calls[i] EXCEPT !.finished_at = 0]],
     contacts |-> st.contacts]

\* C6: delivering an event a second time leaves the calls (but for finished_at)
\* and the contacts as the first delivery left them, also when the identifier
\* was unknown at the first delivery.
C6_Idempotent ==
    \A id \in ProbeIds \cup {""} : \A e \in Probes(id) :
      \A once \in WebhookOutcomes(Store, e) :
        \A twice \in WebhookOutcomes(once, e) : Core(twice) = Core(once)

\* C9: a finished event whose identifier matches a call that is not finished or
\* failed makes that call finished with the event's duration, cost and
\* recording_url, makes its contact (if any) done, and changes nothing else.
C9_FinishedEvent ==
    \A id \in ProbeIds : \A e \in FinishedProbes(id) :
      \A i \in Matching(id) :
        calls[i].status \notin Terminal =>
          \A out \in WebhookOutcomes(Store, e) :
            /\ out.calls = [calls EXCEPT ![i] =
                              [@ EXCEPT !.status = "finished",
                                        !.duration = e.duration,
                                        !.cost = e.cost,
                                        !.recording_url = e.recording_url,
                                        !.finished_at = 1]]
            /\ out.contacts =
                 IF calls[i].contact_id = 0 THEN contacts
                 ELSE [contacts EXCEPT ![calls[i].contact_id] =
                         [@ EXCEPT !.status = "done"]]

Placeholder(id) ==
    [campaign_id |-> 0, contact_id |-> 0, status |-> "created",
     dizparos_call_id |-> id, duration |-> 0, cost |-> 0, recording_url |-> "",
     finished_at |-> 0]

\* C10: an event of any type whose identifier matches no call adds exactly one
\* call, `created`, with that identifier and no contact, and leaves every contact
\* and every other call as it was.
C10_PlaceholderForUnknownId ==
    \A id \in ProbeIds :
      Matching(id) = {} =>
        \A e \in Probes(id) : \A out \in WebhookOutcomes(Store, e) :
          /\ out.calls = Append(calls, Placeholder(id))
          /\ out.contacts = contacts

\* a finished event for an identifier not yet on any row has just been delivered,
\* while a contact is being called
C10_Witness ==
    /\ returned.by = "webhook" /\ returned.warning = "placeholder"
    /\ call_events[Len(call_events)].payload.type = 2002
    /\ call_events[Len(call_events)].call_id = 0
    /\ Len(calls) >= 2
    /\ calls[Len(calls)] =
         Placeholder(call_events[Len(call_events)].payload.data_call_id)
    /\ \E c \in ContactIds : contacts[c].status = "calling"

\* C11: with a secret configured, a request whose x-webhook-secret header is
\* missing or differs from the secret is answered 401 and leaves calls, contacts
\* and call events exactly as they were, whatever its payload.
C11_RejectedLeavesStore ==
    \A header \in Headers :
        (config.secret # << >> /\ Strip(header) # config.secret)
            => \A id \in ProbeIds \cup {""} :
                  \A payload \in Probes(id) :
                      RequestOutcomes(Store, header, payload)
                        = {[calls |-> calls, contacts |-> contacts,
                            call_events |-> call_events, response |-> Unauthorized]}

\* a request has just been rejected while a call is known
C11_Witness ==
    /\ returned.http = 401
    /\ config.secret # << >>
    /\ calls # << >>

\* C12: at every reachable state no two call rows carry the same non-null
\* external_call_id, also when a webhook for a call just placed comes in before
\* the tick has stored the identifier the gateway returned.
C12_ExternalIdUnique ==
    \A i, j \in CallRows :
        (i # j /\ calls[i].dizparos_call_id # "")
            => calls[i].dizparos_call_id # calls[j].dizparos_call_id

\* the call rows an event carrying `id` may be linked to; 0 is null
Linked(id) == IF id = "" \/ Matching(id) = {} THEN {0} ELSE Matching(id)

\* `later` is `earlier` with `n` rows appended
Appended(earlier, later, n) ==
    /\ Len(later) = Len(earlier) + n
    /\ SubSeq(later, 1, Len(earlier)) = earlier

\* a request that passes the secret check appends one event with the raw payload
C13_Archived ==
    \A header \in Headers :
        VerifyWebhook(config.secret, header)
            => \A id \in ProbeIds \cup {""} :
                  \A payload \in Probes(id) :
                      \A out \in RequestOutcomes(Store, header, payload) :
                          /\ Appended(call_events, out.call_events, 1)
                          /\ out.call_events[Len(out.call_events)].payload = payload
                          /\ out.call_events[Len(out.call_events)].call_id
                                \in Linked(id)

\* no step of a tick or of the webhook handler changes or removes an event
C13_AppendOnly ==
    \E n \in 0 .. 1 : Appended(call_events, call_events', n)

\* C13: every request that passes the secret check appends exactly one call event
\* carrying the raw payload, linked to the matched call, or to none when the
\* identifier is absent or unknown, for every event type; and no operation
\* modifies or deletes an existing call event.
C13_EventLog == []C13_Archived /\ [][C13_AppendOnly]_vars

\* with a secret configured, one delivery was archived without a call and one
\* with its call
C13_Witness ==
    /\ config.secret # << >>
    /\ \E i, j \in 1 .. Len(call_events) :
         /\ call_events[i].call_id = 0
         /\ call_events[j].call_id # 0
         /\ call_events[j].event_type # T_start_failed
         /\ PayloadCallId(call_events[j].payload) # ""

\* C14: whenever no tick is in progress, also after ticks that overlapped, each
\* contact's `attempts` equals the number of call rows the ticks created for it.
C14_AttemptsCountCalls ==
    (\A p \in Procs : ~Running(p))
        => \A c \in ContactIds : contacts[c].attempts = Cardinality(CallsOf(c))

\* C15: finished and failed are terminal: no step of a tick and no webhook
\* delivery, a late or replayed answered or transferred event included, takes a
\* call that is finished or failed to any other status.
C15_TerminalStays ==
    [][\A i \in CallRows :
          calls[i].status \in Terminal => calls'[i].status \in Terminal]_vars

\* the step is the one of a tick that marks call `i` failed (lines 235-238)
MarkedFailedByTick(i) ==
    \E p \in Procs :
        /\ tick[p].pc = "fail_call"
        /\ tick[p].call_id = i
        /\ tick'[p].pc = "fail_contact"

\* C16: no webhook delivery sets a call's status to failed; a call a tick marked
\* failed has no external_call_id and no later step changes it, and once its
\* contact is failed too, the contact stays failed.
C16_FailedStays ==
    [][\A i \in CallRows :
          /\ (calls[i].status # "failed" /\ calls'[i].status = "failed")
                => MarkedFailedByTick(i)
          /\ calls[i].status = "failed"
                => /\ calls[i].dizparos_call_id = ""
                   /\ calls'[i] = calls[i]
                   /\ contacts[calls[i].contact_id].status = "failed"
                        => contacts'[calls[i].contact_id].status = "failed"]_vars

T_unanswered == <<"u","n">> \o T_answered
T_not_transferred == <<"n","o","t","_">> \o T_transferred
T_Uncompleted == <<"U","n">> \o T_completed
T_hangup == <<"h","a","n","g","u","p">>

\* events of other codes and types, some of which contain a state's word
OtherProbes(id) ==
    {[NoPayload EXCEPT !.type = t, !.type_description = d, !.data_call_id = id] :
        t \in {0, 1999, 2003},
        d \in {<< >>, T_ringing, T_hangup, T_unanswered, T_not_transferred,
               T_Uncompleted}}

\* neither the code nor the normalized type of `payload` names a transition
Unrecognised(payload) ==
    /\ payload.type \notin {2000, 2001, 2002}
    /\ Desc(payload) \notin {T_answered, T_transferred, T_finished, T_completed}

Statuses(rows) == [i \in DOMAIN rows |-> rows[i].status]

\* C17: an event for a known call whose code is not 2000, 2001 or 2002 and whose
\* normalized type is not exactly answered, transferred, finished or completed
\* changes no call status and no contact status, also when the type merely
\* contains one of those words, as `unanswered` does.
C17_UnrecognisedChangesNothing ==
    \A id \in ProbeIds :
        Matching(id) # {}
            => \A payload \in OtherProbes(id) :
                  Unrecognised(payload)
                      => \A out \in WebhookOutcomes(Store, payload) :
                            /\ Statuses(out.calls) = Statuses(calls)
                            /\ Statuses(out.contacts) = Statuses(contacts)

\* C18: a tick over all running campaigns that ran alone answers ok with a result
\* for every running campaign, and in each campaign that had free slots every
\* selected contact, min(free_slots, pending) of them, has a call row that the
\* gateway step either started or failed, whatever happened to the contacts and
\* campaigns before it: started + errors is the number selected.
C18_FailureDoesNotStopTick ==
    (returned.by = "tick" /\ returned.pre.alone) =>
      /\ returned.ok /\ returned.http = 200
      /\ {returned.results[x].campaign_id : x \in 1 .. Len(returned.results)}
           = {c \in CampaignIds : campaigns[c].status = "running"}
      /\ \A x \in 1 .. Len(returned.results) :
           LET r == returned.results[x]
               pre == returned.pre
               was == PendingContacts(pre.contacts, r.campaign_id)
               selected == Min(r.free_slots, Cardinality(was))
               new == {i \in NewRows(pre) : calls[i].campaign_id = r.campaign_id}
               failed == {i \in new : calls[i].status = "failed"}
           IN /\ r.started + r.errors = selected
              /\ Cardinality(new) = selected
              /\ Cardinality({calls[i].contact_id : i \in new}) = selected
              /\ r.errors = Cardinality(failed)
              /\ \A i \in new :
                   /\ Configured => gateway.dialed[calls[i].contact_id] = 1
                   /\ i \in failed => StartFailedEvents(call_events, i) # {}
                   /\ i \notin failed =>
                        calls[i].status = "created" /\ calls[i].dizparos_call_id # ""

\* the gateway failed the first contact of campaign 1 and a contact of campaign 2,
\* and the tick went on to start the second contact of campaign 1
C18_Witness ==
    /\ returned.by = "tick" /\ returned.pre.alone
    /\ Len(calls) = 3
    /\ calls[1].campaign_id = 1 /\ calls[1].status = "failed"
    /\ calls[2].campaign_id = 1 /\ calls[2].status = "created"
    /\ calls[3].campaign_id = 2 /\ calls[3].status = "failed"
    /\ Len(returned.results) = 2

\* C19: a delivery whose call event was inserted is answered with success, also
\* when a later Store write of the same delivery failed.
C19_AckOnceArchived ==
    [][(returned'.by = "webhook" /\ Appended(call_events, call_events', 1))
          => (returned'.http = 200 /\ returned'.ok)]_vars

\* every contact of a running campaign is done or failed and every call placed for
\* a contact is finished or failed
AllSettled ==
    /\ \A c \in ContactIds :
         campaigns[contacts[c].campaign_id].status = "running"
            => contacts[c].status \in {"done", "failed"}
    /\ \A i \in CallRows : calls[i].contact_id # 0 => calls[i].status \in Terminal

\* C20: with tick requests repeated for ever and a finished event delivered for
\* every call the gateway accepted, at any moment after it accepted the call,
\* every pending contact of a running campaign is eventually dispatched, every
\* call placed reaches finished or failed and its contact done or failed.
C20_EverySlotFreed == <>AllSettled

============================================================================
